---------------------------- MODULE Spec2Model ----------------------------
(***************************************************************************)
(* A model of the SNMP client session of gosnmp.go: the session timeout,   *)
(* the request path (sendPacket and the four request builders), and the    *)
(* four walk engines (Walk, StreamWalk, BulkWalk, StreamBulkWalk).         *)
(*                                                                         *)
(* An OID string is a sequence of characters, so that strings.HasPrefix    *)
(* and strings.Index are computed on text, as the code computes them.      *)
(***************************************************************************)
EXTENDS Integers, Sequences, FiniteSets, TLC

\* ------------------------------------------------------------------ bounds

\* time.Duration is a signed 64-bit count of nanoseconds and time.Second is
\* 10^9 of them.  The model keeps the two's-complement wrap of the
\* multiplication at a width TLC can count in: a Duration is a signed
\* DurationBits-bit count of ticks, and a second is Second ticks.
DurationBits == 6
Second == 4
\* The clock stops advancing after MaxClock seconds.
MaxClock == 1
\* A call sends at most MaxRequests requests.
MaxRequests == 3
\* Largest maxRepetitions a caller passes to a bulk operation.
MaxRep == 2
\* Number of calls the caller makes on the session when it compares walks.
MaxCalls == 2
\* Number of faults (codec errors, codec panics, transport errors, empty
\* responses) the environment injects in one behaviour.
MaxFaults == 1
\* Number of SetTimeout calls in one behaviour.
MaxSetTimeout == 1

\* SetTimeout's default, in seconds (gosnmp.go:62).
DefaultTimeoutSeconds == 5

\* ----------------------------------------------------------------- strings

\* strings.HasPrefix(s, prefix)
HasPrefix(s, prefix) ==
    /\ Len(prefix) <= Len(s)
    /\ SubSeq(s, 1, Len(prefix)) = prefix

\* strings.Index(s, substr): the index of the first instance of substr in s,
\* or -1 if substr is not present in s.
Index(s, substr) ==
    LET at == {i \in 0..(Len(s) - Len(substr)) :
                   SubSeq(s, i + 1, i + Len(substr)) = substr}
    IN  IF at = {} THEN -1 ELSE CHOOSE i \in at : \A j \in at : i <= j

\* The OID strings of the model.  EmptyOID is the string "".
EmptyOID == << >>
Oid1     == <<"1">>
Oid11    == <<"1", ".", "1">>
Oid111   == <<"1", ".", "1", ".", "1">>
Oid112   == <<"1", ".", "1", ".", "2">>
Oid12    == <<"1", ".", "2">>
Oid110   == <<"1", ".", "1", "0">>
Oid211   == <<"2", ".", "1", ".", "1">>

\* The root OIDs a caller walks, and the names of the objects an agent holds.
RootOIDs  == {EmptyOID, Oid11, Oid1}
TreeNames == {Oid111, Oid112, Oid12, Oid110, Oid211}

\* ------------------------------------------------------------ time.Duration

\* A Go signed integer of DurationBits bits: arithmetic wraps.
DurationModulus == 2 ^ DurationBits
WrapDuration(n) ==
    ((n + DurationModulus \div 2) % DurationModulus) - DurationModulus \div 2

\* time.Duration(seconds) * time.Second
SecondsToDuration(seconds) == WrapDuration(seconds * Second)

\* The largest number of seconds whose Duration does not wrap.
MaxSeconds == (DurationModulus \div 2 - 1) \div Second

\* The timeout arguments callers pass to SetTimeout.
TimeoutArgs == {-1, 0, MaxSeconds, MaxSeconds + 1}

\* ------------------------------------------------------------ the agent

\* A variable binding (SnmpPDU): Name, Type, Value.
Pdu(name, type, value) == [Name |-> name, Type |-> type, Value |-> value]
\* An object of the agent's tree, and the end-of-tree sentinel as the codec
\* decodes it: its Value is the string "endOfMib".
Object(name)   == Pdu(name, "OctetString", "value")
EndOfMib(name) == Pdu(name, "EndOfMibView", "endOfMib")

DigitValue(c) ==
    CASE c = "0" -> 0 [] c = "1" -> 1 [] c = "2" -> 2 [] OTHER -> 0

\* The dotted-integer components of an OID string: "1.10" is <<1, 10>>.
RECURSIVE ComponentsFrom(_, _, _, _)
ComponentsFrom(s, i, cur, started) ==
    IF i > Len(s)
    THEN IF started THEN <<cur>> ELSE << >>
    ELSE IF s[i] = "."
         THEN (IF started THEN <<cur>> ELSE << >>)
                  \o ComponentsFrom(s, i + 1, 0, FALSE)
         ELSE ComponentsFrom(s, i + 1, cur * 10 + DigitValue(s[i]), TRUE)
Components(s) == ComponentsFrom(s, 1, 0, FALSE)

\* Tree order: the lexicographic order of the component sequences.
RECURSIVE SeqLess(_, _)
SeqLess(a, b) ==
    IF b = << >> THEN FALSE
    ELSE IF a = << >> THEN TRUE
    ELSE IF a[1] # b[1] THEN a[1] < b[1]
    ELSE SeqLess(Tail(a), Tail(b))
OidLess(a, b) == SeqLess(Components(a), Components(b))

\* The objects of names in tree order (each by its rank), and the agent's
\* objects after oid.
SortedNames(names) ==
    [i \in 1..Cardinality(names) |->
        CHOOSE n \in names :
            Cardinality({m \in names : OidLess(m, n)}) = i - 1]
After(names, oid) == SortedNames({n \in names : OidLess(oid, n)})

\* The agent's answer to getNext(oid): the next object in tree order, or the
\* end-of-tree sentinel bound to the requested OID.
AgentGetNext(names, oid) ==
    LET rest == After(names, oid)
    IN  IF rest = << >> THEN <<EndOfMib(oid)>> ELSE <<Object(rest[1])>>

\* The agent's answer to getBulk(0, maxRepetitions, oid): up to
\* maxRepetitions consecutive objects after oid in tree order; when the tree
\* ends first, one end-of-tree sentinel bound to the last OID reached.
AgentGetBulk(names, maxRepetitions, oid) ==
    LET rest == After(names, oid)
        n    == IF Len(rest) < maxRepetitions THEN Len(rest) ELSE maxRepetitions
        objs == [i \in 1..n |-> Object(rest[i])]
        last == IF n = 0 THEN oid ELSE rest[n]
    IN  IF n < maxRepetitions THEN objs \o <<EndOfMib(last)>> ELSE objs

\* A GET answers each variable with the object of that name, or with
\* noSuchObject; a GETNEXT answers each variable with its successor; a
\* GETBULK answers the first NonRepeaters variables with their successor and
\* every other variable with its MaxRepetitions successors.
RECURSIVE AgentAnswer(_, _, _)
AgentAnswer(names, packet, i) ==
    IF i > Len(packet.Variables) THEN << >>
    ELSE LET name == packet.Variables[i].Name
             here ==
                 CASE packet.RequestType = "GetRequest" ->
                          IF name \in names
                          THEN <<Object(name)>>
                          ELSE <<Pdu(name, "NoSuchObject", "nil")>>
                   [] packet.RequestType = "GetNextRequest" ->
                          AgentGetNext(names, name)
                   [] OTHER ->
                          IF i <= packet.NonRepeaters
                          THEN AgentGetNext(names, name)
                          ELSE AgentGetBulk(names, packet.MaxRepetitions, name)
         IN  here \o AgentAnswer(names, packet, i + 1)

\* What a scripted (mock) agent may answer to any request: one of these
\* batches, which need not be in tree order nor end at a sentinel.
MockAnswers ==
    {<<Object(Oid111)>>,
     <<Object(Oid111), Object(Oid112)>>,
     <<Object(Oid12), Object(Oid112)>>,
     <<Object(Oid111), Object(Oid12)>>,
     <<Object(Oid12)>>,
     <<Object(Oid211)>>,
     <<EndOfMib(Oid111)>>,
     <<Object(Oid111), EndOfMib(Oid111), Object(Oid112)>>,
     <<EndOfMib(Oid111), Object(Oid112), Object(Oid12)>>}

\* --------------------------------------------------------- request packets

\* SnmpPacket as the builders fill it.  new(SnmpPacket) zeroes every field.
ZeroPacket ==
    [Community |-> "", Version |-> 0, RequestType |-> "", Error |-> 0,
     ErrorIndex |-> 0, NonRepeaters |-> 0, MaxRepetitions |-> 0,
     Variables |-> << >>]

\* One SnmpPDU{Name: oid, Type: Null} per input OID, in input order.
NullVariables(oids) ==
    [i \in 1..Len(oids) |-> Pdu(oids[i], "Null", "nil")]

\* ------------------------------------------------------------------ state

VARIABLES
    Community,    \* Conn.Community
    Version,      \* Conn.Version, the version the session was configured with
    Timeout,      \* Conn.Timeout, a Duration in ticks
    deadline,     \* the read/write deadline set on Conn.conn: <<t>>, or << >>
    now,          \* the clock, in ticks
    names,        \* the names of the objects the agent holds
    agentKind,    \* "tree": the agent answers from its tree; "mock": scripted
    pc,           \* "idle", "request", "reading", "returned", "panicked"
    op,           \* the operation in progress
    arg,          \* its arguments: [oids, nonRepeaters, maxRepetitions]
    oid,          \* Walk, StreamWalk: oid; _bulkWalk: searchingOID
    results,      \* Walk: results
    frames,       \* results of each active _bulkWalk invocation, outermost first
    packet,       \* the request packet handed to sendPacket
    ret,          \* what the call returned: [value, err]
    events,       \* the call's transport and stream events, in order
    requests,     \* sendPacket calls made by the call in progress
    clean,        \* no fault was injected into the call in progress
    faults,       \* faults injected so far
    timeoutArg,   \* the argument of the latest Connect or SetTimeout
    setTimeouts,  \* SetTimeout calls so far
    callLimit,    \* the number of calls the caller makes in this behaviour
    history,      \* the completed calls, in order
    observed      \* what the consumer of the stream read in each item, in order

sessionVars == <<Community, Version, Timeout, timeoutArg, setTimeouts>>
agentVars   == <<names, agentKind>>
callVars    == <<pc, op, arg, oid, results, frames, packet, ret, events,
                 requests, clean>>
vars == <<Community, Version, Timeout, deadline, now, names, agentKind, pc,
          op, arg, oid, results, frames, packet, ret, events, requests,
          clean, faults, timeoutArg, setTimeouts, callLimit, history,
          observed>>

\* A nil *SnmpPacket.
Nil        == [nil |-> TRUE]
NoError    == "nil"
NoDeadline == << >>
NoArg      == [oids |-> << >>, nonRepeaters |-> 0, maxRepetitions |-> 0]
NoRet      == [results |-> << >>, packet |-> Nil, err |-> NoError]

\* The (community, version, timeout) arguments sessions are connected with.
ConnectArgs ==
    {<<"public", 1, 1>>, <<"private", 0, 0>>, <<"public", 1, -1>>,
     <<"private", 0, MaxSeconds + 1>>}

\* Connect(target, community, version, timeout): the session keeps
\* time.Duration(timeout) * time.Second as it is given; the connection has
\* no deadline yet.
Connect(community, version, timeout) ==
    /\ Community = community
    /\ Version = version
    /\ Timeout = SecondsToDuration(timeout)
    /\ timeoutArg = timeout
    /\ deadline = NoDeadline

Init ==
    /\ \E a \in ConnectArgs : Connect(a[1], a[2], a[3])
    /\ now = 0
    /\ agentKind \in {"tree", "mock"}
    /\ names \in IF agentKind = "tree" THEN SUBSET TreeNames ELSE {{}}
    /\ pc = "idle"
    /\ op = "none"
    /\ arg = NoArg
    /\ oid = EmptyOID
    /\ results = << >>
    /\ frames = << >>
    /\ packet = Nil
    /\ ret = NoRet
    /\ events = << >>
    /\ requests = 0
    /\ clean = TRUE
    /\ faults = 0
    /\ setTimeouts = 0
    /\ callLimit = 1
    /\ history = << >>
    /\ observed = << >>

\* ---------------------------------------------------------------- session

\* Mutant of SetTimeoutDuration: a non-positive argument is kept.
SetTimeoutDurationUnclamped(seconds) == SecondsToDuration(seconds)

\* The Duration SetTimeout(seconds) stores.
SetTimeoutDuration(seconds) ==
    IF seconds <= 0
    THEN SecondsToDuration(DefaultTimeoutSeconds)
    ELSE SecondsToDuration(seconds)

\* func (x *Conn) SetTimeout(seconds int64).  The caller calls it between
\* its calls, or while a request is in flight (the consumer of a streaming
\* walk is free to).  sendPacket reads x.Timeout only at its start, so a
\* SetTimeout between two requests of a walk is one made while the earlier
\* request was in flight.
SetTimeout ==
    /\ setTimeouts < MaxSetTimeout
    /\ \/ pc = "idle"
       \/ pc = "reading"
       \/ pc = "returned" /\ Len(history) + 1 < callLimit
    /\ \E seconds \in TimeoutArgs :
           /\ Timeout' = SetTimeoutDuration(seconds)
           /\ timeoutArg' = seconds
    /\ setTimeouts' = setTimeouts + 1
    /\ UNCHANGED <<Community, Version, deadline, now, faults, callLimit,
                   history>>
    /\ UNCHANGED agentVars
    /\ UNCHANGED observed
    /\ UNCHANGED callVars

\* A second passes: before a call, or while sendPacket is blocked in
\* conn.Read.
Tick ==
    /\ now < MaxClock * Second
    /\ \/ pc = "idle"
       \/ pc = "reading"
       \/ pc = "returned" /\ Len(history) + 1 < callLimit
    /\ now' = now + Second
    /\ UNCHANGED <<deadline, faults, callLimit, history>>
    /\ UNCHANGED sessionVars
    /\ UNCHANGED agentVars
    /\ UNCHANGED observed
    /\ UNCHANGED callVars

\* -------------------------------------------------------- request builders

\* GetNext: the packet of lines 263-270.
GetNextPacket(o) ==
    [ZeroPacket EXCEPT !.Community = Community, !.Error = 0, !.ErrorIndex = 0,
                       !.RequestType = "GetNextRequest", !.Version = 1,
                       !.Variables = <<Pdu(o, "Null", "nil")>>]

\* GetBulk: the packet of lines 295-306.
GetBulkPacket(nonRepeaters, maxRepetitions, oids) ==
    [ZeroPacket EXCEPT !.Community = Community,
                       !.NonRepeaters = nonRepeaters,
                       !.MaxRepetitions = maxRepetitions,
                       !.RequestType = "GetBulkRequest", !.Version = 1,
                       !.Variables = NullVariables(oids)]

\* Get: the packet of lines 321-328.
GetPacket(o) ==
    [ZeroPacket EXCEPT !.Community = Community, !.Error = 0, !.ErrorIndex = 0,
                       !.RequestType = "GetRequest", !.Version = 1,
                       !.Variables = <<Pdu(o, "Null", "nil")>>]

\* Mutant of GetMultiPacket: the packet carries the session's Version.
GetMultiPacketOfSession(oids) ==
    [ZeroPacket EXCEPT !.Community = Community, !.Error = 0, !.ErrorIndex = 0,
                       !.RequestType = "GetRequest", !.Version = Version,
                       !.Variables = NullVariables(oids)]

\* GetMulti: the packet of lines 343-354.
GetMultiPacket(oids) ==
    [ZeroPacket EXCEPT !.Community = Community, !.Error = 0, !.ErrorIndex = 0,
                       !.RequestType = "GetRequest", !.Version = 1,
                       !.Variables = NullVariables(oids)]

\* Mutant of RequestPacket: a bulk walk seeds every request with its root.
RequestPacketFromRoot ==
    CASE op \in {"Walk", "StreamWalk", "GetNext"} -> GetNextPacket(oid)
      [] op \in {"BulkWalk", "StreamBulkWalk"} ->
             GetBulkPacket(0, arg.maxRepetitions, <<arg.oids[1]>>)
      [] op = "GetBulk" ->
             GetBulkPacket(arg.nonRepeaters, arg.maxRepetitions, arg.oids)
      [] op = "Get" -> GetPacket(oid)
      [] OTHER -> GetMultiPacket(arg.oids)

\* The packet the operation in progress builds for its next request.
RequestPacket ==
    CASE op \in {"Walk", "StreamWalk", "GetNext"} -> GetNextPacket(oid)
      [] op \in {"BulkWalk", "StreamBulkWalk"} ->
             GetBulkPacket(0, arg.maxRepetitions, <<oid>>)
      [] op = "GetBulk" ->
             GetBulkPacket(arg.nonRepeaters, arg.maxRepetitions, arg.oids)
      [] op = "Get" -> GetPacket(oid)
      [] OTHER -> GetMultiPacket(arg.oids)

\* What a builder hands its caller, given how sendPacket ended.  A panic
\* under the builder is recovered by its deferred function, which assigns the
\* local variable err; the builder's results are unnamed, so the call
\* yields their zero values.
BuilderReturn(outcome) ==
    IF outcome.panic
    THEN [packet |-> Nil, err |-> NoError]
    ELSE [packet |-> outcome.packet, err |-> outcome.err]

\* Mutant of Failed: the failure is not reported.
FailedQuietly(err) == [panic |-> FALSE, packet |-> Nil, err |-> NoError]
Failed(err)   == [panic |-> FALSE, packet |-> Nil, err |-> err]
Panicked      == [panic |-> TRUE, packet |-> Nil, err |-> NoError]
Answered(pdu) == [panic |-> FALSE, packet |-> pdu, err |-> NoError]

\* -------------------------------------------------------------- walk engines

\* The part of the state a walk engine changes once a builder has returned.
Here(ev) ==
    [pc |-> pc, oid |-> oid, results |-> results, frames |-> frames,
     ret |-> ret, events |-> ev]

Returned(st, value, err) ==
    [st EXCEPT !.pc = "returned",
               !.ret = [results |-> value, packet |-> Nil, err |-> err]]
Crashed(st) == [st EXCEPT !.pc = "panicked"]

WriteEvent(p)     == [type |-> "write", packet |-> p]
ReadEvent(failure, variables) ==
    [type |-> "read", failure |-> failure, variables |-> variables]
PushEvent(v, ref) == [type |-> "push", pdu |-> v, ref |-> ref]
CloseEvent        == [type |-> "close"]

Pushed(st, v, ref) == [st EXCEPT !.events = Append(@, PushEvent(v, ref))]
\* Mutant of Closed: the stream is closed a second time.
ClosedTwice(st) ==
    [st EXCEPT !.events = Append(Append(@, CloseEvent), CloseEvent)]
Closed(st) == [st EXCEPT !.events = Append(@, CloseEvent)]

\* Mutant of WalkContinue: an error is returned without the results.
WalkContinueBare(st, r, requestOid) ==
    IF r.err # NoError
    THEN Returned(st, << >>, r.err)
    ELSE IF r.packet # Nil /\ Len(r.packet.Variables) > 0
              /\ Index(r.packet.Variables[1].Name, requestOid) > -1
    THEN [st EXCEPT !.results = Append(@, r.packet.Variables[1]),
                    !.oid = r.packet.Variables[1].Name,
                    !.pc = "request"]
    ELSE Returned(st, st.results, NoError)

\* Walk's loop body (lines 185-205) on what GetNext returned; requestOid is
\* the oid the walk was called with.
WalkContinue(st, r, requestOid) ==
    IF r.err # NoError
    THEN Returned(st, st.results, r.err)
    ELSE IF r.packet # Nil
    THEN IF Len(r.packet.Variables) > 0
         THEN IF Index(r.packet.Variables[1].Name, requestOid) > -1
              THEN [st EXCEPT !.results = Append(@, r.packet.Variables[1]),
                              !.oid = r.packet.Variables[1].Name,
                              !.pc = "request"]
              ELSE Returned(st, st.results, NoError)
         ELSE Returned(st, st.results, NoError)
    ELSE Returned(st, st.results, NoError)

\* StreamWalk's loop body (lines 79-100) and the close that follows it.
StreamWalkContinue(st, r, requestOid) ==
    IF r.err # NoError
    THEN Returned(Closed(st), << >>, r.err)
    ELSE IF r.packet # Nil
    THEN IF Len(r.packet.Variables) > 0
         THEN IF Index(r.packet.Variables[1].Name, requestOid) > -1
              THEN [Pushed(st, r.packet.Variables[1], "copy")
                       EXCEPT !.oid = r.packet.Variables[1].Name,
                              !.pc = "request"]
              ELSE Returned(Closed(st), << >>, NoError)
         ELSE Returned(Closed(st), << >>, NoError)
    ELSE Returned(Closed(st), << >>, NoError)

\* Mutant of BulkWalkScan: the sentinel is not looked for.
RECURSIVE BulkWalkScanNoSentinel(_, _, _, _)
BulkWalkScanNoSentinel(variables, i, acc, rootOID) ==
    IF i > Len(variables)
    THEN [results |-> acc, leave |-> "end", seed |-> EmptyOID]
    ELSE IF HasPrefix(variables[i].Name, rootOID)
    THEN IF i = Len(variables)
         THEN [results |-> Append(acc, variables[i]), leave |-> "recurse",
               seed |-> variables[i].Name]
         ELSE BulkWalkScanNoSentinel(variables, i + 1,
                                     Append(acc, variables[i]), rootOID)
    ELSE BulkWalkScanNoSentinel(variables, i + 1, acc, rootOID)

\* The loop of _bulkWalk (lines 155-172) over one batch, from index i with
\* acc appended so far: what the invocation has in results when the loop is
\* left, and how it is left: at the sentinel, into the recursive call (from
\* the last variable, seed), or at the end of the batch.
RECURSIVE BulkWalkScan(_, _, _, _)
BulkWalkScan(variables, i, acc, rootOID) ==
    IF i > Len(variables)
    THEN [results |-> acc, leave |-> "end", seed |-> EmptyOID]
    ELSE IF variables[i].Value = "endOfMib"
    THEN [results |-> acc, leave |-> "sentinel", seed |-> EmptyOID]
    ELSE IF HasPrefix(variables[i].Name, rootOID)
    THEN IF i = Len(variables)
         THEN [results |-> Append(acc, variables[i]), leave |-> "recurse",
               seed |-> variables[i].Name]
         ELSE BulkWalkScan(variables, i + 1, Append(acc, variables[i]),
                           rootOID)
    ELSE BulkWalkScan(variables, i + 1, acc, rootOID)

RECURSIVE Concat(_)
Concat(lists) ==
    IF lists = << >> THEN << >> ELSE Head(lists) \o Concat(Tail(lists))

\* What the outermost _bulkWalk returns when the innermost one has returned
\* (sub, err): each caller up the stack returns on err with its own results
\* (line 167), and otherwise appends what it was returned (line 169).
BulkWalkUnwind(fr, sub, err) ==
    IF err # NoError
    THEN IF Len(fr) = 1 THEN sub ELSE fr[1]
    ELSE Concat(SubSeq(fr, 1, Len(fr) - 1)) \o sub

\* One invocation of _bulkWalk (lines 151-173) on what GetBulk returned; the
\* invocation is the last of st.frames.  done is what the outermost
\* invocation's caller does with the result.
BulkWalkInvocation(st, r, rootOID) ==
    IF r.err # NoError
    THEN [leave |-> "return", value |-> BulkWalkUnwind(st.frames, << >>, r.err),
          err |-> r.err, st |-> st]
    ELSE IF r.packet = Nil
    THEN [leave |-> "panic", value |-> << >>, err |-> NoError, st |-> st]
    ELSE LET scan == BulkWalkScan(r.packet.Variables, 1, << >>, rootOID)
         IN  IF scan.leave = "recurse"
             THEN [leave |-> "recurse", value |-> << >>, err |-> NoError,
                   st |-> [st EXCEPT
                             !.frames = [@ EXCEPT ![Len(@)] = scan.results]
                                            \o << << >> >>,
                             !.oid = scan.seed,
                             !.pc = "request"]]
             ELSE [leave |-> "return",
                   value |-> BulkWalkUnwind(st.frames, scan.results, NoError),
                   err |-> NoError, st |-> st]

\* BulkWalk (line 148) returns what the outermost _bulkWalk returns.
BulkWalkContinue(st, r, rootOID) ==
    LET inv == BulkWalkInvocation(st, r, rootOID)
    IN  CASE inv.leave = "recurse" -> inv.st
          [] inv.leave = "panic" -> Crashed(st)
          [] OTHER -> Returned([st EXCEPT !.frames = << >>],
                               inv.value, inv.err)

\* Mutant of StreamBulkWalkScan: the walk goes on from the last variable of
\* the batch whether or not it is in range.
RECURSIVE StreamBulkWalkScanOn(_, _, _, _)
StreamBulkWalkScanOn(variables, i, st, rootOID) ==
    IF i > Len(variables)
    THEN [st |-> st, leave |-> "end", seed |-> EmptyOID]
    ELSE IF variables[i].Value = "endOfMib"
    THEN [st |-> st, leave |-> "sentinel", seed |-> EmptyOID]
    ELSE LET pushed == IF HasPrefix(variables[i].Name, rootOID)
                       THEN Pushed(st, variables[i], "v") ELSE st
         IN  IF i = Len(variables)
             THEN [st |-> pushed, leave |-> "recurse",
                   seed |-> variables[i].Name]
             ELSE StreamBulkWalkScanOn(variables, i + 1, pushed, rootOID)

\* The loop of StreamBulkWalk (lines 118-139) over the first batch, from
\* index i: each in-range variable is pushed as &v.
RECURSIVE StreamBulkWalkScan(_, _, _, _)
StreamBulkWalkScan(variables, i, st, rootOID) ==
    IF i > Len(variables)
    THEN [st |-> st, leave |-> "end", seed |-> EmptyOID]
    ELSE IF variables[i].Value = "endOfMib"
    THEN [st |-> st, leave |-> "sentinel", seed |-> EmptyOID]
    ELSE IF HasPrefix(variables[i].Name, rootOID)
    THEN IF i = Len(variables)
         THEN [st |-> Pushed(st, variables[i], "v"), leave |-> "recurse",
               seed |-> variables[i].Name]
         ELSE StreamBulkWalkScan(variables, i + 1,
                                 Pushed(st, variables[i], "v"), rootOID)
    ELSE StreamBulkWalkScan(variables, i + 1, st, rootOID)

\* Lines 134-136: every sub-result is pushed as &subResult.
RECURSIVE PushAll(_, _)
PushAll(st, subResults) ==
    IF subResults = << >> THEN st
    ELSE PushAll(Pushed(st, Head(subResults), "subResult"), Tail(subResults))

\* StreamBulkWalk on what GetBulk returned: its own request (line 113) while
\* no _bulkWalk is active, and otherwise the _bulkWalk it called at line 129.
StreamBulkWalkContinue(st, r, rootOID) ==
    IF st.frames = << >>
    THEN IF r.err # NoError
         THEN Returned(Closed(st), << >>, r.err)
         ELSE IF r.packet = Nil
         THEN Crashed(st)
         ELSE LET scan == StreamBulkWalkScan(r.packet.Variables, 1, st, rootOID)
              IN  IF scan.leave = "recurse"
                  THEN [scan.st EXCEPT !.frames = << << >> >>,
                                       !.oid = scan.seed,
                                       !.pc = "request"]
                  ELSE Returned(Closed(scan.st), << >>, NoError)
    ELSE LET inv == BulkWalkInvocation(st, r, rootOID)
         IN  CASE inv.leave = "recurse" -> inv.st
               [] inv.leave = "panic" -> Crashed(st)
               [] inv.err # NoError ->
                      Returned(Closed([st EXCEPT !.frames = << >>]),
                               << >>, inv.err)
               [] OTHER ->
                      Returned(Closed(PushAll([st EXCEPT !.frames = << >>],
                                              inv.value)),
                               << >>, NoError)

\* The caller of a single request gets what the builder returns.
SingleContinue(st, r) ==
    [st EXCEPT !.pc = "returned",
               !.ret = [results |-> << >>, packet |-> r.packet, err |-> r.err]]

\* The operation in progress goes on with what its builder returned.
Continue(st, r) ==
    CASE op = "Walk" -> WalkContinue(st, r, arg.oids[1])
      [] op = "StreamWalk" -> StreamWalkContinue(st, r, arg.oids[1])
      [] op = "BulkWalk" -> BulkWalkContinue(st, r, arg.oids[1])
      [] op = "StreamBulkWalk" -> StreamBulkWalkContinue(st, r, arg.oids[1])
      [] OTHER -> SingleContinue(st, r)

\* --------------------------------------------------------------- sendPacket

Apply(st) ==
    /\ pc' = st.pc
    /\ oid' = st.oid
    /\ results' = st.results
    /\ frames' = st.frames
    /\ ret' = st.ret
    /\ events' = st.events

\* The faults the codec and the transport can raise before the packet is on
\* the wire, and after.
SendFaults == {"marshal", "marshalPanic", "write"}
ReadFaults == {"read", "decode", "decodePanic", "empty"}
Injectable(kinds) == IF faults < MaxFaults THEN kinds ELSE {}

\* The packet Unmarshal decodes from an answer.
Response(variables) ==
    [ZeroPacket EXCEPT !.Community = packet.Community, !.Version = 1,
                       !.RequestType = "GetResponse",
                       !.Variables = variables]

\* sendPacket up to the end of conn.Write (lines 213-229), under the
\* builder that called it: the deadline is set, the packet is marshalled and
\* written.  A deadline that has already passed fails the write.
SendPacket ==
    /\ pc = "request"
    /\ requests < MaxRequests
    /\ requests' = requests + 1
    /\ deadline' = <<now + Timeout>>
    /\ packet' = RequestPacket
    /\ \E how \in {"ok"} \cup Injectable(SendFaults) :
           /\ faults' = IF how = "ok" THEN faults ELSE faults + 1
           /\ CASE how = "marshal" ->
                       /\ Apply(Continue(Here(events),
                                         BuilderReturn(Failed("marshal"))))
                       /\ clean' = FALSE
                [] how = "marshalPanic" ->
                       /\ Apply(Continue(Here(events),
                                         BuilderReturn(Panicked)))
                       /\ clean' = FALSE
                [] how = "write" \/ (how = "ok" /\ deadline'[1] <= now) ->
                       /\ Apply(Continue(
                              Here(Append(events, WriteEvent(packet'))),
                              BuilderReturn(Failed("write"))))
                       /\ clean' = FALSE
                [] OTHER ->
                       /\ pc' = "reading"
                       /\ events' = Append(events, WriteEvent(packet'))
                       /\ UNCHANGED <<oid, results, frames, ret, clean>>
    /\ UNCHANGED <<now, op, arg, callLimit, history>>
    /\ UNCHANGED sessionVars
    /\ UNCHANGED agentVars
    /\ UNCHANGED observed

\* What the agent may answer to the packet in flight.
Answers ==
    IF agentKind = "tree" THEN {AgentAnswer(names, packet, 1)} ELSE MockAnswers

\* Mutant of SendPacketResult: a response without variables is handed on.
SendPacketResultUnchecked(read, decode, pdu) ==
    IF read # "ok" THEN Failed("read")
    ELSE IF decode = "decodePanic" THEN Panicked
    ELSE IF decode # "ok" THEN Failed("decode")
    ELSE Answered(pdu)

\* How sendPacket ends once the packet is written (lines 231-249): read is
\* how conn.Read ended ("ok" or "read"), decode how Unmarshal ended ("ok",
\* "decode" or "decodePanic") on the pdu read.
SendPacketResult(read, decode, pdu) ==
    IF read # "ok" THEN Failed("read")
    ELSE IF decode = "decodePanic" THEN Panicked
    ELSE IF decode # "ok" THEN Failed("decode")
    ELSE IF Len(pdu.Variables) < 1 THEN Failed("empty")
    ELSE Answered(pdu)

\* sendPacket from conn.Read on, under the builder that called it.  The read
\* fails once the deadline has passed; an injected "empty" fault is an
\* answer that decodes to a packet without variables.
ReadResponse ==
    /\ pc = "reading"
    /\ \E how \in {"answer"} \cup Injectable(ReadFaults), answer \in Answers :
           LET timedOut == now >= deadline[1]
               read     == IF timedOut \/ how = "read" THEN "read" ELSE "ok"
               decode   == IF how \in {"decode", "decodePanic"}
                           THEN how ELSE "ok"
               pdu      == Response(IF how = "empty" THEN << >> ELSE answer)
               outcome  == SendPacketResult(read, decode, pdu)
               failure  == CASE read # "ok" -> "read"
                             [] decode # "ok" -> decode
                             [] Len(pdu.Variables) < 1 -> "empty"
                             [] OTHER -> "none"
               decoded  == IF read = "ok" /\ decode = "ok"
                           THEN pdu.Variables ELSE << >>
           IN  /\ faults' = IF how = "answer" \/ timedOut
                            THEN faults ELSE faults + 1
               /\ clean' = (clean /\ failure = "none")
               /\ Apply(Continue(Here(Append(events,
                                             ReadEvent(failure, decoded))),
                                 BuilderReturn(outcome)))
    /\ UNCHANGED <<deadline, now, op, arg, packet, requests, callLimit,
                   history>>
    /\ UNCHANGED sessionVars
    /\ UNCHANGED agentVars
    /\ UNCHANGED observed

\* --------------------------------------------------------------- the calls

\* The call that has just returned, as the history keeps it.
Completed ==
    [op |-> op, arg |-> arg, ret |-> ret, events |-> events, clean |-> clean]

\* The completed calls, the one that has just returned included.
CompletedCalls ==
    IF pc = "returned" THEN Append(history, Completed) ELSE history

\* The caller makes its next call: the session serves one call at a time.
Begin(name, a, first) ==
    /\ pc \in {"idle", "returned"}
    /\ Len(CompletedCalls) < callLimit
    /\ history' = CompletedCalls
    /\ op' = name
    /\ arg' = a
    /\ oid' = first
    /\ results' = << >>
    /\ packet' = Nil
    /\ requests' = 0
    /\ clean' = TRUE
    /\ UNCHANGED <<deadline, now, faults, callLimit>>
    /\ UNCHANGED sessionVars
    /\ UNCHANGED agentVars
    /\ observed' = << >>

WalkArg(o, maxRepetitions) ==
    [oids |-> <<o>>, nonRepeaters |-> 0, maxRepetitions |-> maxRepetitions]

OidLists == {<< >>, <<Oid11>>, <<Oid11, Oid12>>}
\* The (nonRepeaters, maxRepetitions, oids) a caller passes to GetBulk.
GetBulkArgs ==
    {<<0, 1, <<Oid11>>>>, <<1, MaxRep, <<Oid11, Oid12>>>>, <<0, 0, << >>>>}

\* func (x *Conn) Get(oid string)
Get ==
    \E o \in {Oid11, Oid111} :
        /\ Begin("Get", WalkArg(o, 0), o)
        /\ pc' = "request" /\ ret' = NoRet /\ events' = << >>
        /\ frames' = << >>

\* func (x *Conn) GetMulti(oids []string)
GetMulti ==
    \E oids \in OidLists :
        /\ Begin("GetMulti",
                 [oids |-> oids, nonRepeaters |-> 0, maxRepetitions |-> 0],
                 EmptyOID)
        /\ pc' = "request" /\ ret' = NoRet /\ events' = << >>
        /\ frames' = << >>

\* func (x *Conn) GetNext(oid string)
GetNext ==
    \E o \in {Oid11, Oid111} :
        /\ Begin("GetNext", WalkArg(o, 0), o)
        /\ pc' = "request" /\ ret' = NoRet /\ events' = << >>
        /\ frames' = << >>

\* func (x *Conn) GetBulk(nonRepeaters, maxRepetitions uint8, oids ...string)
GetBulk ==
    \E a \in GetBulkArgs :
        /\ Begin("GetBulk",
                 [oids |-> a[3], nonRepeaters |-> a[1],
                  maxRepetitions |-> a[2]],
                 EmptyOID)
        /\ pc' = "request" /\ ret' = NoRet /\ events' = << >>
        /\ frames' = << >>

\* func (x *Conn) Walk(oid string): lines 178-182.
Walk ==
    \E o \in RootOIDs :
        /\ Begin("Walk", WalkArg(o, 0), o)
        /\ IF o = EmptyOID
           THEN /\ pc' = "returned"
                /\ ret' = [NoRet EXCEPT !.err = "No OID given"]
           ELSE /\ pc' = "request"
                /\ ret' = NoRet
        /\ events' = << >>
        /\ frames' = << >>

\* func (x *Conn) StreamWalk(oid string, c chan SnmpPDU): lines 71-76.
StreamWalk ==
    \E o \in RootOIDs :
        /\ Begin("StreamWalk", WalkArg(o, 0), o)
        /\ IF o = EmptyOID
           THEN /\ pc' = "returned"
                /\ ret' = [NoRet EXCEPT !.err = "No OID given"]
                /\ events' = <<CloseEvent>>
           ELSE /\ pc' = "request"
                /\ ret' = NoRet
                /\ events' = << >>
        /\ frames' = << >>

\* func (x *Conn) BulkWalk(maxRepetitions uint8, oid string): lines 145-148.
BulkWalk ==
    \E o \in RootOIDs, maxRepetitions \in 0..MaxRep :
        /\ Begin("BulkWalk", WalkArg(o, maxRepetitions), o)
        /\ IF o = EmptyOID
           THEN /\ pc' = "returned"
                /\ ret' = [NoRet EXCEPT !.err = "No OID given"]
                /\ frames' = << >>
           ELSE /\ pc' = "request"
                /\ ret' = NoRet
                /\ frames' = << << >> >>
        /\ events' = << >>

\* func (x *Conn) StreamBulkWalk(maxRepetitions uint8, oid string,
\* resultChan chan *SnmpPDU): lines 112-113; the oid is not looked at.
StreamBulkWalk ==
    \E o \in RootOIDs, maxRepetitions \in 0..MaxRep :
        /\ Begin("StreamBulkWalk", WalkArg(o, maxRepetitions), o)
        /\ pc' = "request" /\ ret' = NoRet /\ events' = << >>
        /\ frames' = << >>

\* The two blocking walks, one after the other, against the same agent tree.
InitPair ==
    /\ Connect("public", 1, 1)
    /\ now = 0
    /\ agentKind = "tree"
    /\ names \in SUBSET TreeNames
    /\ pc = "idle"
    /\ op = "none"
    /\ arg = NoArg
    /\ oid = EmptyOID
    /\ results = << >>
    /\ frames = << >>
    /\ packet = Nil
    /\ ret = NoRet
    /\ events = << >>
    /\ requests = 0
    /\ clean = TRUE
    /\ faults = 0
    /\ setTimeouts = 0
    /\ callLimit = MaxCalls
    /\ history = << >>
    /\ observed = << >>

NextPair ==
    \/ Walk
    \/ BulkWalk
    \/ SendPacket
    \/ ReadResponse

SpecPair == InitPair /\ [][NextPair]_vars

Next ==
    \/ SetTimeout
    \/ Tick
    \/ Get
    \/ GetMulti
    \/ GetNext
    \/ GetBulk
    \/ Walk
    \/ StreamWalk
    \/ BulkWalk
    \/ StreamBulkWalk
    \/ SendPacket
    \/ ReadResponse

Spec == Init /\ [][Next]_vars

\* A streaming walk for as long as it takes: the agent of the tree answers
\* every request, nothing fails, and the consumer reads every item pushed.
\* The log of the call and its count of requests only observe the call; here
\* the log keeps the closes alone and the requests are not counted.
Trim(st) == [st EXCEPT !.events = SelectSeq(@, LAMBDA e : e.type = "close")]

InitLive ==
    /\ Connect("public", 1, 1)
    /\ now = 0
    /\ agentKind = "tree"
    /\ names \in SUBSET TreeNames
    /\ pc = "idle"
    /\ op = "none"
    /\ arg = NoArg
    /\ oid = EmptyOID
    /\ results = << >>
    /\ frames = << >>
    /\ packet = Nil
    /\ ret = NoRet
    /\ events = << >>
    /\ requests = 0
    /\ clean = TRUE
    /\ faults = MaxFaults
    /\ setTimeouts = 0
    /\ callLimit = 1
    /\ history = << >>
    /\ observed = << >>

\* sendPacket as far as conn.Write (lines 215-224), nothing failing.
SendPacketLive ==
    /\ pc = "request"
    /\ deadline' = <<now + Timeout>>
    /\ packet' = RequestPacket
    /\ pc' = "reading"
    /\ UNCHANGED <<oid, results, frames, ret, events, requests, clean>>
    /\ UNCHANGED <<now, op, arg, faults, callLimit, history>>
    /\ UNCHANGED sessionVars
    /\ UNCHANGED agentVars
    /\ UNCHANGED observed

\* sendPacket from conn.Read on (lines 226-249) with the agent's answer, and
\* the walk's handling of what it returns.
ReadResponseLive ==
    /\ pc = "reading"
    /\ \E answer \in {AgentAnswer(names, packet, 1)} :
       \E outcome \in {SendPacketResult("ok", "ok", Response(answer))} :
       \E st \in {Trim(Continue(Here(events), BuilderReturn(outcome)))} :
           Apply(st)
    /\ UNCHANGED <<deadline, now, op, arg, packet, requests, clean, faults,
                   callLimit, history>>
    /\ UNCHANGED sessionVars
    /\ UNCHANGED agentVars
    /\ UNCHANGED observed

NextLive ==
    \/ StreamWalk
    \/ StreamBulkWalk
    \/ SendPacketLive
    \/ ReadResponseLive

\* The producer runs whenever it can, and the agent answers every request.
SpecLive ==
    /\ InitLive
    /\ [][NextLive]_vars
    /\ WF_vars(SendPacketLive)
    /\ WF_vars(ReadResponseLive)

\* The consumer of the result stream.  StreamWalk sends each variable by
\* value (chan SnmpPDU, line 86).  StreamBulkWalk sends &v and &subResult
\* (lines 125, 135): every item of the first batch points to the one loop
\* variable v of line 118, which each later iteration of that loop
\* overwrites with the next variable of the batch, pushed or not, and every
\* later item points to the one loop variable subResult of line 134.  The
\* consumer reads what an item points to when it comes to it, unordered with
\* the producer's later writes of that variable.

\* The index in the batch at which the loop of lines 118-139 is left.
LoopStop(batch) ==
    LET at == {i \in 1..Len(batch) : batch[i].Value = "endOfMib"}
    IN  IF at = {} THEN Len(batch) ELSE CHOOSE i \in at : \A j \in at : i <= j

\* The indices of the variables of the first batch that are pushed, in order.
PushedIndices(batch, rootOID) ==
    SelectSeq([i \in 1..Len(batch) |-> i],
              LAMBDA i : /\ HasPrefix(batch[i].Name, rootOID)
                         /\ \A j \in 1..i : batch[j].Value # "endOfMib")

\* What the consumer may read in the k-th item pushed.
Readable(k) ==
    LET pushes == SelectSeq(events, LAMBDA e : e.type = "push")
        reads  == SelectSeq(events, LAMBDA e : e.type = "read"
                                                 /\ e.failure = "none")
    IN  CASE pushes[k].ref = "copy" -> {pushes[k].pdu}
          [] pushes[k].ref = "v" ->
                 LET batch == reads[1].variables
                     from  == PushedIndices(batch, arg.oids[1])[k]
                 IN  {batch[j] : j \in from..LoopStop(batch)}
          [] OTHER ->
                 {pushes[j].pdu : j \in {i \in k..Len(pushes) :
                                             pushes[i].ref = pushes[k].ref}}

\* The consumer reads the next item of the stream.
Consume ==
    /\ op \in {"StreamWalk", "StreamBulkWalk"}
    /\ Len(observed) < Len(SelectSeq(events, LAMBDA e : e.type = "push"))
    /\ \E seen \in Readable(Len(observed) + 1) :
           observed' = Append(observed, seen)
    /\ UNCHANGED <<deadline, now, faults, callLimit, history>>
    /\ UNCHANGED sessionVars
    /\ UNCHANGED agentVars
    /\ UNCHANGED callVars

NextStream ==
    \/ StreamWalk
    \/ StreamBulkWalk
    \/ SendPacket
    \/ ReadResponse
    \/ Consume

\* A streaming walk and its consumer, against the agent of a tree.
SpecStream == InitLive /\ [][NextStream]_vars

\* ------------------------------------------------------------------ claims

SingleOps == {"Get", "GetNext", "GetBulk", "GetMulti"}
StreamOps == {"StreamWalk", "StreamBulkWalk"}
BulkOps   == {"BulkWalk", "StreamBulkWalk"}
WalkOps   == {"Walk", "StreamWalk", "BulkWalk", "StreamBulkWalk"}

IsPush(e)  == e.type = "push"
IsClose(e) == e.type = "close"
IsWrite(e) == e.type = "write"
IsRead(e)  == e.type = "read"

\* The variables pushed into the result stream, in order.
PushedPdus(ev) ==
    LET pushes == SelectSeq(ev, IsPush)
    IN  [i \in 1..Len(pushes) |-> pushes[i].pdu]

\* What a walk has emitted when it returns: the returned list of a blocking
\* walk, the pushed variables of a streaming one.
Emitted(c) ==
    IF c.op \in StreamOps THEN PushedPdus(c.events) ELSE c.ret.results

\* C1: a panic under Get, GetNext, GetBulk or GetMulti reaches the caller as a
\* non-nil error: no such call returns a nil packet with a nil error, and no
\* call (a walk engine's included) ends in a panic.
C1_PanicBecomesError ==
    /\ pc # "panicked"
    /\ (pc = "returned" /\ op \in SingleOps)
           => ~(ret.packet = Nil /\ ret.err = NoError)

\* C2: a streaming walk never closes its stream twice, pushes or closes
\* nothing after the close, and has closed the stream exactly once when it
\* returns, whichever way it ends.
C2_StreamClosedOnce ==
    op \in StreamOps =>
        /\ Len(SelectSeq(events, IsClose)) <= 1
        /\ \A i \in 1..Len(events) :
               IsClose(events[i]) =>
                   \A j \in (i + 1)..Len(events) :
                       ~IsPush(events[j]) /\ ~IsClose(events[j])
        /\ pc = "returned" => Len(SelectSeq(events, IsClose)) = 1

\* A StreamBulkWalk that pushed variables and then failed at its third
\* request, two _bulkWalk invocations deep, has returned.
C2_Witness ==
    /\ op = "StreamBulkWalk"
    /\ pc = "returned"
    /\ ret.err # NoError
    /\ requests = MaxRequests
    /\ Len(SelectSeq(events, IsPush)) >= 1
    /\ Len(SelectSeq(events, IsClose)) = 1

\* C3: a Walk and a BulkWalk (maxRepetitions >= 1) of the same non-empty root
\* against the same agent tree, both undisturbed, return the same list.
C3_WalkEqualsBulkWalk ==
    \A i, j \in 1..Len(CompletedCalls) :
        LET w == CompletedCalls[i]
            b == CompletedCalls[j]
        IN  (/\ w.op = "Walk" /\ b.op = "BulkWalk"
             /\ w.arg.oids = b.arg.oids
             /\ w.arg.oids[1] # EmptyOID
             /\ b.arg.maxRepetitions >= 1
             /\ w.clean /\ b.clean
             /\ w.ret.err = NoError /\ b.ret.err = NoError)
                => w.ret.results = b.ret.results

\* C4: a walk called with the empty OID writes nothing to the transport and
\* returns the invalid-input error.
C4_EmptyOidSendsNothing ==
    (op \in WalkOps /\ arg.oids[1] = EmptyOID) =>
        /\ SelectSeq(events, IsWrite) = << >>
        /\ pc # "panicked"
        /\ pc = "returned" => ret.err = "No OID given"

\* The first variable of each answer the call decoded, in order.
FirstAnswers(ev) ==
    LET reads == SelectSeq(ev, LAMBDA e : IsRead(e) /\ e.variables # << >>)
    IN  [i \in 1..Len(reads) |-> reads[i].variables[1]]

\* The longest initial run of vs whose Name begins with root.
RECURSIVE InitialRun(_, _)
InitialRun(vs, root) ==
    IF vs = << >> \/ ~HasPrefix(Head(vs).Name, root) THEN << >>
    ELSE <<Head(vs)>> \o InitialRun(Tail(vs), root)

\* C5: an undisturbed Walk that has returned returns, with no error, the
\* longest initial run of the getNext answers whose Name begins with the
\* root, and the answer that ended the run was its last request's.
C5_WalkReturnsInitialRun ==
    (op = "Walk" /\ pc = "returned" /\ clean /\ arg.oids[1] # EmptyOID) =>
        /\ ret.err = NoError
        /\ ret.results = InitialRun(FirstAnswers(events), arg.oids[1])
        /\ Len(FirstAnswers(events))
               = Len(InitialRun(FirstAnswers(events), arg.oids[1])) + 1

\* The batches a bulk walk decoded, in order.
Batches(ev) ==
    LET reads == SelectSeq(ev, LAMBDA e : IsRead(e) /\ e.failure = "none")
    IN  [i \in 1..Len(reads) |-> reads[i].variables]

IsSentinel(v) == v.Value = "endOfMib"
HasSentinel(batch) == \E k \in 1..Len(batch) : IsSentinel(batch[k])

\* The variables of a batch before its first sentinel.
RECURSIVE BeforeSentinel(_)
BeforeSentinel(batch) ==
    IF batch = << >> \/ IsSentinel(Head(batch)) THEN << >>
    ELSE <<Head(batch)>> \o BeforeSentinel(Tail(batch))

\* The variables of vs whose Name begins with root, in order.
InRange(vs, root) == SelectSeq(vs, LAMBDA v : HasPrefix(v.Name, root))

\* What the batches give: of each batch, in order, the in-range variables
\* before its first sentinel.
RECURSIVE Kept(_, _)
Kept(batches, root) ==
    IF batches = << >> THEN << >>
    ELSE InRange(BeforeSentinel(Head(batches)), root)
             \o Kept(Tail(batches), root)

\* The index of the last transport event (a write or a read), 0 if none.
LastTransport(ev) ==
    LET at == {i \in 1..Len(ev) : IsWrite(ev[i]) \/ IsRead(ev[i])}
    IN  IF at = {} THEN 0 ELSE CHOOSE i \in at : \A j \in at : j <= i

\* The batch the bulk walk in progress has just decoded: every request begun
\* has been read, and the last transport event is a read that gave a batch.
JustDecoded ==
    /\ op \in BulkOps
    /\ requests = Len(SelectSeq(events, IsRead))
    /\ LastTransport(events) > 0
    /\ IsRead(events[LastTransport(events)])
    /\ events[LastTransport(events)].failure = "none"
LastBatch == events[LastTransport(events)].variables

\* C6: a bulk walk decodes a batch holding the sentinel only as its last
\* transport event: the walk has returned with no error, and what it emitted
\* is, batch by batch, the in-range variables before the sentinel.
C6_SentinelEndsBulkWalk ==
    (op \in BulkOps /\ \E b \in 1..Len(Batches(events)) :
                           HasSentinel(Batches(events)[b])) =>
        /\ JustDecoded
        /\ HasSentinel(LastBatch)
        /\ \A b \in 1..(Len(Batches(events)) - 1) :
               ~HasSentinel(Batches(events)[b])
        /\ pc = "returned"
        /\ ret.err = NoError
        /\ Emitted(Completed) = Kept(Batches(events), arg.oids[1])

\* A BulkWalk whose third batch, two recursions deep, holds the sentinel
\* between two in-range variables has returned what came before it.
C6_Witness ==
    /\ op = "BulkWalk"
    /\ arg.oids[1] = Oid11
    /\ pc = "returned"
    /\ requests = MaxRequests
    /\ JustDecoded
    /\ LastBatch = <<Object(Oid111), EndOfMib(Oid111), Object(Oid112)>>
    /\ Len(ret.results) = MaxRequests

\* C7 as amended: when the last variable of the batch a bulk walk has just
\* decoded does not begin with the root, the walk has returned with no error
\* (no further request) and what it emitted ends with that batch's in-range
\* variables before its first sentinel; and a batch without a sentinel whose
\* last variable begins with the root leaves the walk about to send the next
\* request from that variable, out-of-range variables before it or not.
C7_OutOfRangeTailEndsBulkWalk ==
    (JustDecoded /\ arg.oids[1] # EmptyOID) =>
        LET last == LastBatch[Len(LastBatch)]
        IN  /\ ~HasPrefix(last.Name, arg.oids[1]) =>
                   /\ pc = "returned"
                   /\ ret.err = NoError
                   /\ Emitted(Completed) = Kept(Batches(events), arg.oids[1])
            /\ (/\ HasPrefix(last.Name, arg.oids[1])
                /\ ~HasSentinel(LastBatch)
                /\ \E k \in 1..Len(LastBatch) :
                       ~HasPrefix(LastBatch[k].Name, arg.oids[1])) =>
                   /\ pc = "request"
                   /\ oid = last.Name

\* A StreamBulkWalk has returned after a second batch whose out-of-range
\* last variable follows an in-range one, the first batch having gone on
\* past an out-of-range variable.
C7_Witness ==
    /\ op = "StreamBulkWalk"
    /\ arg.oids[1] = Oid11
    /\ pc = "returned"
    /\ JustDecoded
    /\ Batches(events) = << <<Object(Oid12), Object(Oid112)>>,
                            <<Object(Oid111), Object(Oid12)>> >>
    /\ PushedPdus(events) = <<Object(Oid112), Object(Oid111)>>

\* C7 as stated: what the walk emitted ends with all the in-range variables
\* of the batch whose last variable is out of range.
C7_Original ==
    (JustDecoded /\ arg.oids[1] # EmptyOID
       /\ ~HasPrefix(LastBatch[Len(LastBatch)].Name, arg.oids[1])) =>
        /\ pc = "returned"
        /\ ret.err = NoError
        /\ Emitted(Completed) =
               Kept(SubSeq(Batches(events), 1, Len(Batches(events)) - 1),
                    arg.oids[1])
                 \o SelectSeq(InRange(LastBatch, arg.oids[1]),
                              LAMBDA v : ~IsSentinel(v))

\* C8: a BulkWalk that has returned an error returns no variables with it.
C8_BulkWalkErrorDiscardsResults ==
    (op = "BulkWalk" /\ pc = "returned" /\ ret.err # NoError) =>
        ret.results = << >>

\* The read events of ev that decoded a response without variables.
EmptyReads(ev) == {i \in 1..Len(ev) : IsRead(ev[i]) /\ ev[i].failure = "empty"}

\* C9 as amended: a Walk or StreamWalk one of whose getNext exchanges decoded
\* a response without variables has returned the "No responses received."
\* error of sendPacket, that exchange was its last, Walk returns with the
\* error the variables emitted so far, and StreamWalk has closed the stream
\* as its last event.
C9_EmptyResponseEndsWalkWithError ==
    (op \in {"Walk", "StreamWalk"} /\ EmptyReads(events) # {}) =>
        /\ EmptyReads(events) = {LastTransport(events)}
        /\ pc = "returned"
        /\ ret.err = "empty"
        /\ Emitted(Completed) = FirstAnswers(events)
        /\ op = "StreamWalk" =>
               /\ IsClose(events[Len(events)])
               /\ Len(SelectSeq(events, IsClose)) = 1

\* A Walk has returned two variables with the error of a third exchange
\* whose response had none.
C9_Witness ==
    /\ op = "Walk"
    /\ pc = "returned"
    /\ requests = MaxRequests
    /\ EmptyReads(events) # {}
    /\ Len(ret.results) = MaxRequests - 1
    /\ ret.err = "empty"

\* C9 as stated: the walk such an exchange ends returns no error.
C9_Original ==
    (op \in {"Walk", "StreamWalk"} /\ EmptyReads(events) # {}) =>
        /\ pc = "returned"
        /\ ret.err = NoError
        /\ Emitted(Completed) = FirstAnswers(events)

\* The timeout, in ticks, that SetTimeout(seconds) is said to set.
SaidTimeout(seconds) ==
    IF seconds <= 0 THEN DefaultTimeoutSeconds * Second ELSE seconds * Second

\* C10 as amended: a step that is a SetTimeout(s) with s no more than
\* MaxSeconds, the most seconds a Duration holds, sets the timeout to the
\* default for s <= 0 and to s seconds for s > 0; a step that begins a
\* request sets the deadline to the time of the call plus the timeout; and a
\* step that leaves a request in flight leaves its deadline alone.
C10_SetTimeoutAndDeadline ==
    [][/\ (setTimeouts' = setTimeouts + 1 /\ timeoutArg' <= MaxSeconds) =>
              Timeout' = SaidTimeout(timeoutArg')
       /\ requests' = requests + 1 => deadline' = <<now + Timeout>>
       /\ (pc = "reading" /\ pc' = "reading") => deadline' = deadline]_vars

\* A request is in flight that began a second after SetTimeout(MaxSeconds),
\* with the deadline of that call time plus MaxSeconds seconds.
C10_Witness ==
    /\ setTimeouts = 1
    /\ timeoutArg = MaxSeconds
    /\ pc = "reading"
    /\ now = Second
    /\ deadline = <<Second + MaxSeconds * Second>>

\* C10 as stated: SetTimeout(s) sets s seconds for every s > 0.
C10_Original ==
    [][setTimeouts' = setTimeouts + 1 =>
           Timeout' = SaidTimeout(timeoutArg')]_vars

\* C11: against the agent of a finite tree, a StreamWalk or StreamBulkWalk
\* that has begun eventually returns with its stream closed.
C11_StreamingWalkTerminates ==
    (op \in StreamOps) ~>
        (pc = "returned" /\ \E i \in 1..Len(events) : IsClose(events[i]))

\* C12: whenever StreamBulkWalk writes a getBulk request, every in-range
\* variable (before the sentinel) of every batch it has decoded so far has
\* been pushed into the stream.
C12_PushedBeforeNextRequest ==
    op = "StreamBulkWalk" =>
        \A w \in 1..Len(events) :
            IsWrite(events[w]) =>
                PushedPdus(SubSeq(events, 1, w)) =
                    Kept(Batches(SubSeq(events, 1, w)), arg.oids[1])

\* The error of the request that failed, as the log of the call shows it:
\* the failure of the last read; "write" when the last packet written was
\* never read; "marshal" when a request was begun and nothing was written
\* for it; and "nil" when the log shows no failed request.
Writes(ev) == SelectSeq(ev, IsWrite)
Reads(ev)  == SelectSeq(ev, IsRead)
FailedRequestError ==
    CASE Len(Writes(events)) < requests -> "marshal"
      [] Len(Reads(events)) < Len(Writes(events)) -> "write"
      [] Len(Reads(events)) > 0
           /\ Reads(events)[Len(Reads(events))].failure
                  \in {"read", "decode", "empty"} ->
             Reads(events)[Len(Reads(events))].failure
      [] OTHER -> NoError

\* C13: a getNext exchange of a Walk or StreamWalk that the log shows to
\* have failed with an error has ended the walk; and a walk that has
\* returned an error of a request returns exactly the error of that failed
\* request, which was its last, every exchange before it having given an
\* answer that was emitted: Walk returns with the error exactly the answers
\* emitted, in order, and StreamWalk has pushed them and closed the stream
\* last.
C13_WalkReturnsRequestError ==
    /\ (op \in {"Walk", "StreamWalk"} /\ pc \in {"request", "returned"}
          /\ FailedRequestError \in {"write", "read", "decode", "empty"}) =>
           /\ pc = "returned"
           /\ ret.err = FailedRequestError
    /\ (op \in {"Walk", "StreamWalk"} /\ pc = "returned"
          /\ ret.err \notin {NoError, "No OID given"}) =>
           /\ ret.err = FailedRequestError
           /\ Len(FirstAnswers(events)) = requests - 1
           /\ Emitted(Completed) = FirstAnswers(events)
           /\ op = "StreamWalk" => IsClose(events[Len(events)])

\* A Walk has returned its two variables with the decode error of its third
\* request.
C13_Witness ==
    /\ op = "Walk"
    /\ pc = "returned"
    /\ requests = MaxRequests
    /\ ret.err = "decode"
    /\ Len(ret.results) = MaxRequests - 1

\* A batch after which a bulk walk goes on: it holds no sentinel and its
\* last variable begins with the root.
GoesOn(batch, root) ==
    /\ batch # << >>
    /\ ~HasSentinel(batch)
    /\ HasPrefix(batch[Len(batch)].Name, root)

\* Whether packet p is a getBulk request with non-repeaters 0, the caller's
\* maxRepetitions and the single seed given.
IsFollowUp(p, seed) ==
    /\ p.RequestType = "GetBulkRequest"
    /\ p.NonRepeaters = 0
    /\ p.MaxRepetitions = arg.maxRepetitions
    /\ [i \in 1..Len(p.Variables) |-> p.Variables[i].Name] = <<seed>>

IsPrefixOf(s, t) == Len(s) <= Len(t) /\ s = SubSeq(t, 1, Len(s))

\* C14: in a bulk walk, a batch just decoded after which the walk goes on
\* leaves the walk about to build one getBulk request with non-repeaters 0,
\* the caller's maxRepetitions and the Name of the batch's last variable as
\* its single seed; in the log, writes and reads alternate, every write but
\* the first follows such a batch and carries that request; and what the
\* walk emits is, in the order of the batches, what each batch gave.
C14_FollowUpRequest ==
    op \in BulkOps =>
        /\ (JustDecoded /\ GoesOn(LastBatch, arg.oids[1])) =>
               /\ pc = "request"
               /\ IsFollowUp(RequestPacket, LastBatch[Len(LastBatch)].Name)
        /\ \A w \in 2..Len(events) :
               IsWrite(events[w]) =>
                   LET before == SubSeq(events, 1, w - 1)
                       r      == LastTransport(before)
                   IN  /\ r > 0
                       /\ IsRead(events[r])
                       /\ events[r].failure = "none"
                       /\ GoesOn(events[r].variables, arg.oids[1])
                       /\ IsFollowUp(events[w].packet,
                              events[r].variables[Len(events[r].variables)].Name)
        /\ \A i \in 2..Len(events) :
               IsRead(events[i]) => IsWrite(events[LastTransport(
                                                SubSeq(events, 1, i - 1))])
        /\ IsPrefixOf(Emitted(Completed), Kept(Batches(events), arg.oids[1]))
        /\ (pc = "returned" /\ ret.err = NoError) =>
               Emitted(Completed) = Kept(Batches(events), arg.oids[1])

\* A BulkWalk has returned, in the order of the batches, what its first
\* request and the first of its two follow-up requests gave.
C14_Witness ==
    /\ op = "BulkWalk"
    /\ agentKind = "tree"
    /\ arg.maxRepetitions = 1
    /\ pc = "returned"
    /\ ret.err = NoError
    /\ Len(Writes(events)) = MaxRequests
    /\ ret.results = <<Object(Oid111), Object(Oid112)>>

KindOf(o) ==
    CASE o \in {"Get", "GetMulti"} -> "GetRequest"
      [] o \in {"GetNext", "Walk", "StreamWalk"} -> "GetNextRequest"
      [] OTHER -> "GetBulkRequest"

\* What C16 says of a request packet p built from the input OIDs oids.
WellBuilt(p, oids) ==
    /\ p.Community = Community
    /\ p.RequestType = KindOf(op)
    /\ Len(p.Variables) = Len(oids)
    /\ \A i \in 1..Len(oids) :
           p.Variables[i] = [Name |-> oids[i], Type |-> "Null", Value |-> "nil"]
    /\ p.Version = 1

\* C16: the packet an operation has built, and every packet it has written,
\* carries the session's community, the operation kind of its builder, one
\* Null-typed variable without value per input OID in input order, and the
\* wire version 1 whatever the session's Version; for Get, GetMulti, GetNext
\* and GetBulk the input OIDs are the caller's, and a walk calls GetNext or
\* GetBulk with one OID.
C16_RequestPacketWellBuilt ==
    /\ (op \in SingleOps /\ packet # Nil) => WellBuilt(packet, arg.oids)
    /\ (op \in WalkOps /\ packet # Nil) =>
           \E o \in {arg.oids[1]} \cup TreeNames : WellBuilt(packet, <<o>>)
    /\ \A i \in 1..Len(events) :
           IsWrite(events[i]) =>
               IF op \in SingleOps
               THEN WellBuilt(events[i].packet, arg.oids)
               ELSE \E o \in {arg.oids[1]} \cup TreeNames :
                        WellBuilt(events[i].packet, <<o>>)

\* A session configured with Version 0 and community "private" has written
\* the packet of a GetMulti of two OIDs.
C16_Witness ==
    /\ op = "GetMulti"
    /\ Version = 0
    /\ Community = "private"
    /\ arg.oids = <<Oid11, Oid12>>
    /\ pc = "reading"
    /\ Len(Writes(events)) = 1
    /\ packet = events[1].packet

\* Whether OID a is, component by component, a prefix of OID b.
InSubtree(a, b) == IsPrefixOf(Components(a), Components(b))

\* C17: the Name of every variable a walk has emitted lies in the subtree of
\* the root OID it was called with.
C17_EmittedInSubtree ==
    op \in WalkOps =>
        \A i \in 1..Len(Emitted(Completed)) :
            InSubtree(arg.oids[1], Emitted(Completed)[i].Name)

\* C18: what the consumer of a StreamBulkWalk has read in the items of the
\* stream is, item by item, the variable each item was pushed with; and when
\* the walk has returned with no error and the consumer has read every item,
\* that is what the batches gave, the list BulkWalk returns.
C18_ConsumerSeesPushed ==
    op = "StreamBulkWalk" =>
        /\ IsPrefixOf(observed, PushedPdus(events))
        /\ (pc = "returned" /\ ret.err = NoError
              /\ Len(observed) = Len(PushedPdus(events))) =>
               observed = Kept(Batches(events), arg.oids[1])

\* C19: in every state of a session the timeout is strictly positive.
C19_TimeoutPositive == Timeout > 0

=============================================================================
